---------------------------- MODULE Spec2Model ----------------------------
(***************************************************************************)
(* A model of the `transact` streaming transaction processor:              *)
(*   - the pipeline of lib.rs (`process`): decoder -> try_chunks ->        *)
(*     persist_block -> per-transaction TxProcessor::process -> Accounts,  *)
(*     then emission of the account snapshots;                             *)
(*   - the TxBlockStore (persist_block / find_transaction) as a directory  *)
(*     of block files named `{tx_min}_{tx_max}.csv`;                       *)
(*   - the TxProcessor state machine over Account values with checked      *)
(*     decimal arithmetic.                                                 *)
(* Amounts are integers in DecimalMIN..DecimalMAX (a scaled-down Decimal   *)
(* range); an Option<T> is a sequence of length 0 (None) or 1 (Some).      *)
(***************************************************************************)
EXTENDS Integers, Sequences, FiniteSets, TLC

(***************************************************************************)
(* Bounds of the model.                                                    *)
(***************************************************************************)
\* Number of input rows the decoder yields at most.
MaxStream == 4
\* Decimal::MAX of the amount type, scaled down; Decimal::MIN is its negation.
DecimalMAX == 2
\* lib.rs TX_BLOCK_SIZE (10000 in the program), scaled down.
TX_BLOCK_SIZE == 2

DecimalMIN == 0 - DecimalMAX
Clients == {1, 2}
TxIds == {1, 2, 3}
\* Amounts the input rows carry.
Amounts == {-1, 1, 2}

None == <<>>
Some(v) == <<v>>
IsSome(o) == Len(o) = 1
Unwrap(o) == o[1]

Min2(a, b) == IF a <= b THEN a ELSE b
\* Mutant of Max2: the left argument is kept.
Max2Keep(a, b) == a

Max2(a, b) == IF a >= b THEN a ELSE b

(***************************************************************************)
(* Decimal arithmetic (rust_decimal), as the processor uses it.            *)
(***************************************************************************)
\* Mutant of checked_add: the sum wraps around the range.
wrapping_add(a, b) ==
    Some(((a + b - DecimalMIN) % (DecimalMAX - DecimalMIN + 1)) + DecimalMIN)

checked_add(a, b) ==
    IF a + b >= DecimalMIN /\ a + b <= DecimalMAX THEN Some(a + b) ELSE None

\* saturating_sub saturates at Decimal::MAX / Decimal::MIN, not at zero.
saturating_sub(a, b) ==
    IF a - b > DecimalMAX THEN DecimalMAX
    ELSE IF a - b < DecimalMIN THEN DecimalMIN
    ELSE a - b

is_sign_negative(a) == a < 0

(***************************************************************************)
(* model/transaction.rs: the five transaction variants.                    *)
(***************************************************************************)
Deposit(c, t, a) == [kind |-> "Deposit", client |-> c, tx |-> t, amount |-> a]
Withdrawal(c, t, a) == [kind |-> "Withdrawal", client |-> c, tx |-> t, amount |-> a]
Dispute(c, t) == [kind |-> "Dispute", client |-> c, tx |-> t]
Resolve(c, t) == [kind |-> "Resolve", client |-> c, tx |-> t]
Chargeback(c, t) == [kind |-> "Chargeback", client |-> c, tx |-> t]

IsDeposit(t) == t.kind = "Deposit"

(***************************************************************************)
(* model/account.rs                                                        *)
(***************************************************************************)
\* Mutant of try_new: total is taken from available alone.
try_new_stale(client, available, held, locked, disputed_txs) ==
    IF IsSome(checked_add(available, held))
    THEN Some([client |-> client, available |-> available, held |-> held,
               total |-> available, locked |-> locked,
               disputed_txs |-> disputed_txs])
    ELSE None

\* Account::try_new: total is computed, None stands for Err(TotalOverflow).
try_new(client, available, held, locked, disputed_txs) ==
    LET total == checked_add(available, held)
    IN  IF IsSome(total)
        THEN Some([client |-> client, available |-> available, held |-> held,
                   total |-> Unwrap(total), locked |-> locked,
                   disputed_txs |-> disputed_txs])
        ELSE None

\* Account::empty
empty(client) ==
    [client |-> client, available |-> 0, held |-> 0, total |-> 0,
     locked |-> FALSE, disputed_txs |-> {}]

(***************************************************************************)
(* Results of TxProcessor::process: Result<Result<(), TxError>, Error>.    *)
(* level "ok" = Ok(Ok(())), "tx_error" = Ok(Err(TxError::kind)),           *)
(* "fatal" = Err(Error::kind), "panic" = a failed expect / unreachable.    *)
(***************************************************************************)
\* `error` holds the fields of the TxError value, <<>> when there is none.
Outcome(account, level, kind, error) ==
    [account |-> account, level |-> level, kind |-> kind, error |-> error]
OkOk(account) == Outcome(account, "ok", "Ok", <<>>)
TxErr(account, kind, error) == Outcome(account, "tx_error", kind, error)
Fatal(account, kind) == Outcome(account, "fatal", kind, <<>>)
Panic(account) == Outcome(account, "panic", "panic", <<>>)

(***************************************************************************)
(* tx_processor.rs: the per-variant handlers.  `found` is the value that   *)
(* find_transaction produced for the referenced tx (see FindOutcomes).     *)
(***************************************************************************)
\* Mutant of handle_deposit: the amount replaces the available amount.
handle_deposit_overwrite(account, deposit) ==
    LET available_next == checked_add(0, deposit.amount)
    IN  IF is_sign_negative(deposit.amount)
        THEN TxErr(account, "DepositAmountNegative",
                   [client |-> account.client, tx |-> deposit.tx,
                    amount |-> deposit.amount])
        ELSE IF ~IsSome(available_next)
        THEN TxErr(account, "DepositAvailableOverflow",
                   [client |-> account.client, tx |-> deposit.tx])
        ELSE LET updated == try_new(account.client, Unwrap(available_next),
                                    account.held, account.locked,
                                    account.disputed_txs)
             IN  IF IsSome(updated)
                 THEN OkOk(Unwrap(updated))
                 ELSE TxErr(account, "DepositTotalOverflow",
                            [client |-> account.client, tx |-> deposit.tx])

\* Mutant of handle_deposit: the new available amount is written to the
\* account before the total is found to overflow.
handle_deposit_early_write(account, deposit) ==
    LET available_next == checked_add(account.available, deposit.amount)
    IN  IF is_sign_negative(deposit.amount)
        THEN TxErr(account, "DepositAmountNegative",
                   [client |-> account.client, tx |-> deposit.tx,
                    amount |-> deposit.amount])
        ELSE IF ~IsSome(available_next)
        THEN TxErr(account, "DepositAvailableOverflow",
                   [client |-> account.client, tx |-> deposit.tx])
        ELSE LET updated == try_new(account.client, Unwrap(available_next),
                                    account.held, account.locked,
                                    account.disputed_txs)
             IN  IF IsSome(updated)
                 THEN OkOk(Unwrap(updated))
                 ELSE TxErr([account EXCEPT !.available = Unwrap(available_next)],
                            "DepositTotalOverflow",
                            [client |-> account.client, tx |-> deposit.tx])

handle_deposit(account, deposit) ==
    LET available_next == checked_add(account.available, deposit.amount)
    IN  IF is_sign_negative(deposit.amount)
        THEN TxErr(account, "DepositAmountNegative",
                   [client |-> account.client, tx |-> deposit.tx,
                    amount |-> deposit.amount])
        ELSE IF ~IsSome(available_next)
        THEN TxErr(account, "DepositAvailableOverflow",
                   [client |-> account.client, tx |-> deposit.tx])
        ELSE LET updated == try_new(account.client, Unwrap(available_next),
                                    account.held, account.locked,
                                    account.disputed_txs)
             IN  IF IsSome(updated)
                 THEN OkOk(Unwrap(updated))
                 ELSE TxErr(account, "DepositTotalOverflow",
                            [client |-> account.client, tx |-> deposit.tx])

\* Mutant of handle_withdrawal: the amount is compared with available before
\* its sign is looked at.
handle_withdrawal_insufficient_first(account, withdrawal) ==
    IF withdrawal.amount > account.available
    THEN TxErr(account, "WithdrawalInsufficientAvailable",
               [client |-> account.client, tx |-> withdrawal.tx,
                available |-> account.available, amount |-> withdrawal.amount])
    ELSE IF is_sign_negative(withdrawal.amount)
    THEN TxErr(account, "WithdrawalAmountNegative",
               [client |-> account.client, tx |-> withdrawal.tx,
                amount |-> withdrawal.amount])
    ELSE LET available_next == saturating_sub(account.available, withdrawal.amount)
             updated == try_new(account.client, available_next, account.held,
                                account.locked, account.disputed_txs)
         IN  IF IsSome(updated) THEN OkOk(Unwrap(updated)) ELSE Panic(account)

\* Mutant of handle_withdrawal: a withdrawal of all the available funds is
\* refused.
handle_withdrawal_strict(account, withdrawal) ==
    IF is_sign_negative(withdrawal.amount)
    THEN TxErr(account, "WithdrawalAmountNegative",
               [client |-> account.client, tx |-> withdrawal.tx,
                amount |-> withdrawal.amount])
    ELSE IF withdrawal.amount >= account.available
    THEN TxErr(account, "WithdrawalInsufficientAvailable",
               [client |-> account.client, tx |-> withdrawal.tx,
                available |-> account.available, amount |-> withdrawal.amount])
    ELSE LET available_next == saturating_sub(account.available, withdrawal.amount)
             updated == try_new(account.client, available_next, account.held,
                                account.locked, account.disputed_txs)
         IN  IF IsSome(updated) THEN OkOk(Unwrap(updated)) ELSE Panic(account)

handle_withdrawal(account, withdrawal) ==
    IF is_sign_negative(withdrawal.amount)
    THEN TxErr(account, "WithdrawalAmountNegative",
               [client |-> account.client, tx |-> withdrawal.tx,
                amount |-> withdrawal.amount])
    ELSE IF withdrawal.amount > account.available
    THEN TxErr(account, "WithdrawalInsufficientAvailable",
               [client |-> account.client, tx |-> withdrawal.tx,
                available |-> account.available, amount |-> withdrawal.amount])
    ELSE LET available_next == saturating_sub(account.available, withdrawal.amount)
             updated == try_new(account.client, available_next, account.held,
                                account.locked, account.disputed_txs)
         IN  IF IsSome(updated) THEN OkOk(Unwrap(updated)) ELSE Panic(account)

\* A dispute handler that adds to held before it compares the amount with
\* the available amount.
handle_dispute_overflow_first(account, dispute, found) ==
    IF ~found.ok THEN Fatal(account, found.err)
    ELSE IF ~IsSome(found.txn)
    THEN TxErr(account, "DisputeTxNotFound", [tx |-> dispute.tx])
    ELSE LET transaction == Unwrap(found.txn)
             amount == transaction.amount
             held_next == checked_add(account.held, amount)
         IN  IF transaction.client # dispute.client
             THEN TxErr(account, "DisputeClientMismatch",
                        [tx |-> transaction.tx, dispute_tx_client |-> dispute.client,
                         disputed_tx_client |-> transaction.client])
             ELSE IF ~IsSome(held_next)
             THEN TxErr(account, "DisputeHeldOverflow",
                        [client |-> account.client, tx |-> transaction.tx,
                         held |-> account.held, amount |-> amount])
             ELSE IF amount > account.available
             THEN TxErr(account, "DisputeInsufficientAvailable",
                        [client |-> account.client, tx |-> transaction.tx,
                         available |-> account.available, amount |-> amount])
             ELSE LET updated == try_new(account.client,
                                         saturating_sub(account.available, amount),
                                         Unwrap(held_next), account.locked,
                                         account.disputed_txs \cup {transaction.tx})
                  IN  IF IsSome(updated) THEN OkOk(Unwrap(updated))
                      ELSE Panic(account)

\* A dispute handler without the comparison of the two clients.
handle_dispute_any_client(account, dispute, found) ==
    IF ~found.ok THEN Fatal(account, found.err)
    ELSE IF ~IsSome(found.txn)
    THEN TxErr(account, "DisputeTxNotFound", [tx |-> dispute.tx])
    ELSE LET transaction == Unwrap(found.txn)
             amount == transaction.amount
             held_next == checked_add(account.held, amount)
         IN  IF amount > account.available
             THEN TxErr(account, "DisputeInsufficientAvailable",
                        [client |-> account.client, tx |-> transaction.tx,
                         available |-> account.available, amount |-> amount])
             ELSE IF ~IsSome(held_next)
             THEN TxErr(account, "DisputeHeldOverflow",
                        [client |-> account.client, tx |-> transaction.tx,
                         held |-> account.held, amount |-> amount])
             ELSE LET updated == try_new(account.client,
                                         saturating_sub(account.available, amount),
                                         Unwrap(held_next), account.locked,
                                         account.disputed_txs \cup {transaction.tx})
                  IN  IF IsSome(updated) THEN OkOk(Unwrap(updated))
                      ELSE Panic(account)

\* `found.ok = FALSE`: find_transaction returned Err(found.err), which the
\* `?` after `.await` propagates.  `found.txn = None` is the Option the
\* handler's `.ok_or(TxError::DisputeTxNotFound)` turns into a business error.
handle_dispute(account, dispute, found) ==
    IF ~found.ok THEN Fatal(account, found.err)
    ELSE IF ~IsSome(found.txn)
    THEN TxErr(account, "DisputeTxNotFound", [tx |-> dispute.tx])
    ELSE LET transaction == Unwrap(found.txn) IN
    IF transaction.client # dispute.client
    THEN TxErr(account, "DisputeClientMismatch",
               [tx |-> transaction.tx, dispute_tx_client |-> dispute.client,
                disputed_tx_client |-> transaction.client])
    ELSE IF ~IsDeposit(transaction) THEN Panic(account)
    ELSE LET tx == transaction.tx
             amount == transaction.amount
             available == account.available
             held == account.held
         IN  IF amount > available
             THEN TxErr(account, "DisputeInsufficientAvailable",
                        [client |-> account.client, tx |-> tx,
                         available |-> available, amount |-> amount])
             ELSE LET available_next == saturating_sub(available, amount)
                      held_next == checked_add(held, amount)
                  IN  IF ~IsSome(held_next)
                      THEN TxErr(account, "DisputeHeldOverflow",
                                 [client |-> account.client, tx |-> tx,
                                  held |-> held, amount |-> amount])
                      ELSE LET updated == try_new(account.client, available_next,
                                                  Unwrap(held_next), account.locked,
                                                  account.disputed_txs \cup {tx})
                           IN  IF IsSome(updated) THEN OkOk(Unwrap(updated))
                               ELSE Panic(account)

\* The block store is consulted only when resolve.tx is in disputed_txs:
\* `found` is ignored otherwise.
handle_resolve(account, resolve, found) ==
    IF resolve.tx \notin account.disputed_txs
    THEN TxErr(account, "ResolveTxNotInDispute",
               [client |-> resolve.client, tx |-> resolve.tx])
    ELSE IF ~found.ok THEN Fatal(account, found.err)
    ELSE IF ~IsSome(found.txn)
    THEN TxErr(account, "DisputeTxNotFound", [tx |-> resolve.tx])
    ELSE LET transaction == Unwrap(found.txn) IN
    IF transaction.client # resolve.client
    THEN TxErr(account, "ResolveClientMismatch",
               [tx |-> transaction.tx, resolve_tx_client |-> resolve.client,
                disputed_tx_client |-> transaction.client])
    ELSE IF ~IsDeposit(transaction) THEN Panic(account)
    ELSE LET amount == transaction.amount
             available == account.available
             held == account.held
         IN  IF amount > held
             THEN TxErr(account, "ResolveInsufficientHeld",
                        [client |-> account.client, tx |-> transaction.tx,
                         held |-> held, amount |-> amount])
             ELSE LET held_next == saturating_sub(held, amount)
                      available_next == checked_add(available, amount)
                  IN  IF ~IsSome(available_next)
                      THEN TxErr(account, "ResolveAvailableOverflow",
                                 [client |-> account.client, tx |-> transaction.tx,
                                  available |-> available, amount |-> amount])
                      ELSE LET updated == try_new(account.client, Unwrap(available_next),
                                                  held_next, account.locked,
                                                  account.disputed_txs \ {resolve.tx})
                           IN  IF IsSome(updated) THEN OkOk(Unwrap(updated))
                               ELSE Panic(account)

\* A chargeback handler that leaves the locked flag as it finds it.
handle_chargeback_no_lock(account, chargeback, found) ==
    IF chargeback.tx \notin account.disputed_txs
    THEN TxErr(account, "ChargebackTxNotInDispute",
               [client |-> chargeback.client, tx |-> chargeback.tx])
    ELSE IF ~found.ok THEN Fatal(account, found.err)
    ELSE IF ~IsSome(found.txn)
    THEN TxErr(account, "DisputeTxNotFound", [tx |-> chargeback.tx])
    ELSE LET transaction == Unwrap(found.txn) IN
    IF transaction.client # chargeback.client
    THEN TxErr(account, "ChargebackClientMismatch",
               [tx |-> transaction.tx, chargeback_tx_client |-> chargeback.client,
                disputed_tx_client |-> transaction.client])
    ELSE IF ~IsDeposit(transaction) THEN Panic(account)
    ELSE LET amount == transaction.amount
             held == account.held
         IN  IF amount > held
             THEN TxErr(account, "ChargebackInsufficientHeld",
                        [client |-> account.client, tx |-> transaction.tx,
                         held |-> held, amount |-> amount])
             ELSE LET held_next == saturating_sub(held, amount)
                      updated == try_new(account.client, account.available, held_next,
                                         account.locked,
                                         account.disputed_txs \ {chargeback.tx})
                  IN  IF IsSome(updated) THEN OkOk(Unwrap(updated))
                      ELSE Panic(account)

\* Mutant of handle_chargeback: disputed_txs is not looked at.
handle_chargeback_unchecked(account, chargeback, found) ==
    IF ~found.ok THEN Fatal(account, found.err)
    ELSE IF ~IsSome(found.txn)
    THEN TxErr(account, "DisputeTxNotFound", [tx |-> chargeback.tx])
    ELSE LET transaction == Unwrap(found.txn) IN
    IF transaction.client # chargeback.client
    THEN TxErr(account, "ChargebackClientMismatch",
               [tx |-> transaction.tx, chargeback_tx_client |-> chargeback.client,
                disputed_tx_client |-> transaction.client])
    ELSE IF ~IsDeposit(transaction) THEN Panic(account)
    ELSE LET amount == transaction.amount
             held == account.held
         IN  IF amount > held
             THEN TxErr(account, "ChargebackInsufficientHeld",
                        [client |-> account.client, tx |-> transaction.tx,
                         held |-> held, amount |-> amount])
             ELSE LET held_next == saturating_sub(held, amount)
                      updated == try_new(account.client, account.available, held_next,
                                         TRUE, account.disputed_txs \ {chargeback.tx})
                  IN  IF IsSome(updated) THEN OkOk(Unwrap(updated))
                      ELSE Panic(account)

handle_chargeback(account, chargeback, found) ==
    IF chargeback.tx \notin account.disputed_txs
    THEN TxErr(account, "ChargebackTxNotInDispute",
               [client |-> chargeback.client, tx |-> chargeback.tx])
    ELSE IF ~found.ok THEN Fatal(account, found.err)
    ELSE IF ~IsSome(found.txn)
    THEN TxErr(account, "DisputeTxNotFound", [tx |-> chargeback.tx])
    ELSE LET transaction == Unwrap(found.txn) IN
    IF transaction.client # chargeback.client
    THEN TxErr(account, "ChargebackClientMismatch",
               [tx |-> transaction.tx, chargeback_tx_client |-> chargeback.client,
                disputed_tx_client |-> transaction.client])
    ELSE IF ~IsDeposit(transaction) THEN Panic(account)
    ELSE LET amount == transaction.amount
             held == account.held
         IN  IF amount > held
             THEN TxErr(account, "ChargebackInsufficientHeld",
                        [client |-> account.client, tx |-> transaction.tx,
                         held |-> held, amount |-> amount])
             ELSE LET held_next == saturating_sub(held, amount)
                      updated == try_new(account.client, account.available, held_next,
                                         TRUE, account.disputed_txs \ {chargeback.tx})
                  IN  IF IsSome(updated) THEN OkOk(Unwrap(updated))
                      ELSE Panic(account)

\* Whether the variant's handler reaches its find_transaction call.
ConsultsStore(account, transaction) ==
    /\ ~account.locked
    /\ \/ transaction.kind = "Dispute"
       \/ /\ transaction.kind \in {"Resolve", "Chargeback"}
          /\ transaction.tx \in account.disputed_txs

\* Mutant of TxProcess: the locked gate is missing.
TxProcessNoGate(account, transaction, found) ==
    IF transaction.kind = "Deposit" THEN handle_deposit(account, transaction)
    ELSE IF transaction.kind = "Withdrawal" THEN handle_withdrawal(account, transaction)
    ELSE IF transaction.kind = "Dispute" THEN handle_dispute(account, transaction, found)
    ELSE IF transaction.kind = "Resolve" THEN handle_resolve(account, transaction, found)
    ELSE handle_chargeback(account, transaction, found)

\* Mutant of TxProcess: a deposit's amount is validated before the locked
\* gate.
TxProcessLateGate(account, transaction, found) ==
    IF transaction.kind = "Deposit" /\ is_sign_negative(transaction.amount)
    THEN handle_deposit(account, transaction)
    ELSE IF account.locked
    THEN TxErr(account, "AccountLocked",
               [client |-> account.client, tx |-> transaction.tx])
    ELSE IF transaction.kind = "Deposit" THEN handle_deposit(account, transaction)
    ELSE IF transaction.kind = "Withdrawal" THEN handle_withdrawal(account, transaction)
    ELSE IF transaction.kind = "Dispute" THEN handle_dispute(account, transaction, found)
    ELSE IF transaction.kind = "Resolve" THEN handle_resolve(account, transaction, found)
    ELSE handle_chargeback(account, transaction, found)

\* TxProcessor::process: the locked gate, then the variant's handler.
TxProcess(account, transaction, found) ==
    IF account.locked
    THEN TxErr(account, "AccountLocked",
               [client |-> account.client, tx |-> transaction.tx])
    ELSE IF transaction.kind = "Deposit" THEN handle_deposit(account, transaction)
    ELSE IF transaction.kind = "Withdrawal" THEN handle_withdrawal(account, transaction)
    ELSE IF transaction.kind = "Dispute" THEN handle_dispute(account, transaction, found)
    ELSE IF transaction.kind = "Resolve" THEN handle_resolve(account, transaction, found)
    ELSE handle_chargeback(account, transaction, found)

(***************************************************************************)
(* csv/tx_record.rs and csv/transact_csv.rs: records and rows.             *)
(***************************************************************************)
TxTypes == {"deposit", "withdrawal", "dispute", "resolve", "chargeback"}

TxRecord(type, c, t, amount) == [type |-> type, client |-> c, tx |-> t, amount |-> amount]

\* impl From<Transaction> for TxRecord
TxRecordFrom(transaction) ==
    IF transaction.kind = "Deposit"
    THEN TxRecord("deposit", transaction.client, transaction.tx, Some(transaction.amount))
    ELSE IF transaction.kind = "Withdrawal"
    THEN TxRecord("withdrawal", transaction.client, transaction.tx, Some(transaction.amount))
    ELSE IF transaction.kind = "Dispute"
    THEN TxRecord("dispute", transaction.client, transaction.tx, None)
    ELSE IF transaction.kind = "Resolve"
    THEN TxRecord("resolve", transaction.client, transaction.tx, None)
    ELSE TxRecord("chargeback", transaction.client, transaction.tx, None)

\* A decoder that reads an absent amount as zero.
try_from_default_zero(tx_record) ==
    LET amount == IF IsSome(tx_record.amount) THEN Unwrap(tx_record.amount) ELSE 0
    IN  IF tx_record.type = "deposit"
        THEN [ok |-> TRUE, txn |-> Deposit(tx_record.client, tx_record.tx, amount)]
        ELSE IF tx_record.type = "withdrawal"
        THEN [ok |-> TRUE, txn |-> Withdrawal(tx_record.client, tx_record.tx, amount)]
        ELSE IF tx_record.type = "dispute"
        THEN [ok |-> TRUE, txn |-> Dispute(tx_record.client, tx_record.tx)]
        ELSE IF tx_record.type = "resolve"
        THEN [ok |-> TRUE, txn |-> Resolve(tx_record.client, tx_record.tx)]
        ELSE [ok |-> TRUE, txn |-> Chargeback(tx_record.client, tx_record.tx)]

\* impl TryFrom<TxRecord> for Transaction: [ok, txn] or [ok, err].
try_from(tx_record) ==
    IF tx_record.type = "deposit"
    THEN IF IsSome(tx_record.amount)
         THEN [ok |-> TRUE,
               txn |-> Deposit(tx_record.client, tx_record.tx, Unwrap(tx_record.amount))]
         ELSE [ok |-> FALSE, err |-> "DepositAmountNotProvided"]
    ELSE IF tx_record.type = "withdrawal"
    THEN IF IsSome(tx_record.amount)
         THEN [ok |-> TRUE,
               txn |-> Withdrawal(tx_record.client, tx_record.tx, Unwrap(tx_record.amount))]
         ELSE [ok |-> FALSE, err |-> "WithdrawalAmountNotProvided"]
    ELSE IF tx_record.type = "dispute"
    THEN [ok |-> TRUE, txn |-> Dispute(tx_record.client, tx_record.tx)]
    ELSE IF tx_record.type = "resolve"
    THEN [ok |-> TRUE, txn |-> Resolve(tx_record.client, tx_record.tx)]
    ELSE [ok |-> TRUE, txn |-> Chargeback(tx_record.client, tx_record.tx)]

\* Decimal's Display: sign and digits, no exponent.
FormatDecimal(a) == IF a < 0 THEN "-" \o ToString(0 - a) ELSE ToString(a)

\* Decimal's parse of a field: None when the text is no decimal in range.
ParseDecimal(s) ==
    LET m == {a \in DecimalMIN..DecimalMAX : FormatDecimal(a) = s}
    IN  IF m = {} THEN None ELSE Some(CHOOSE a \in m : TRUE)

ParseClient(s) ==
    LET m == {c \in Clients : ToString(c) = s}
    IN  IF m = {} THEN None ELSE Some(CHOOSE c \in m : TRUE)

ParseU32(s) ==
    LET m == {t \in TxIds : ToString(t) = s}
    IN  IF m = {} THEN None ELSE Some(CHOOSE t \in m : TRUE)

\* The csv serializer's row for a TxRecord: one text field per column, an
\* absent amount as the empty field.
SerializeRow(tx_record) ==
    [type |-> tx_record.type, client |-> ToString(tx_record.client),
     tx |-> ToString(tx_record.tx),
     amount |-> IF IsSome(tx_record.amount)
                THEN FormatDecimal(Unwrap(tx_record.amount)) ELSE ""]

\* The csv deserializer's TxRecord for a row; None: Err(TransactionDeserialize).
DeserializeRow(row) ==
    LET c == ParseClient(row.client)
        t == ParseU32(row.tx)
        a == IF row.amount = "" THEN Some(None)
             ELSE IF IsSome(ParseDecimal(row.amount))
             THEN Some(ParseDecimal(row.amount)) ELSE None
    IN  IF row.type \in TxTypes /\ IsSome(c) /\ IsSome(t) /\ IsSome(a)
        THEN Some(TxRecord(row.type, Unwrap(c), Unwrap(t), Unwrap(a)))
        ELSE None

\* TransactCsv::stream over a file's rows: one item per row, Ok(transaction)
\* or Err(kind).
StreamItem(row) ==
    LET rec == DeserializeRow(row)
    IN  IF IsSome(rec) THEN try_from(Unwrap(rec))
        ELSE [ok |-> FALSE, err |-> "TransactionDeserialize"]

(***************************************************************************)
(* tx_block_store.rs                                                       *)
(***************************************************************************)
\* format!("{tx_min}_{tx_max}.csv")
FileName(tx_min, tx_max) == ToString(tx_min) \o "_" \o ToString(tx_max) \o ".csv"

\* TxBlockStore::parse_min_max_tx: Some(<<tx_min, tx_max>>), or None for
\* Err(BlockFileNameInvalid).
parse_min_max_tx(file_name) ==
    LET m == {p \in TxIds \X TxIds : FileName(p[1], p[2]) = file_name}
    IN  IF m = {} THEN None ELSE Some(CHOOSE p \in m : TRUE)

\* The try_filter_map of find_transaction: the block may hold the transaction.
block_may_have_transaction(tx_min, tx_max, tx) == tx_min <= tx /\ tx_max >= tx

\* Mutant of tx_matches: any deposit matches.
tx_matches_any(transaction, tx) == IsDeposit(transaction)

\* The filter of find_transaction on a streamed transaction.
tx_matches(transaction, tx) == IsDeposit(transaction) /\ transaction.tx = tx

\* The items a directory entry contributes to the stream find_transaction
\* takes its first item of: an invalid name gives one Err item; a candidate
\* block gives, in file order, its matching transactions and its Err rows.
RECURSIVE BlockItems(_, _)
BlockItems(rows, tx) ==
    IF rows = <<>> THEN <<>>
    ELSE LET item == StreamItem(Head(rows))
             rest == BlockItems(Tail(rows), tx)
         IN  IF ~item.ok THEN <<item>> \o rest
             ELSE IF tx_matches(item.txn, tx)
             THEN <<[ok |-> TRUE, txn |-> Some(item.txn)]>> \o rest
             ELSE rest

EntryItems(d, file_name, tx) ==
    LET mm == parse_min_max_tx(file_name)
    IN  IF ~IsSome(mm) THEN <<[ok |-> FALSE, err |-> "BlockFileNameInvalid"]>>
        ELSE IF block_may_have_transaction(Unwrap(mm)[1], Unwrap(mm)[2], tx)
        THEN BlockItems(d[file_name], tx)
        ELSE <<>>

\* TxBlockStore::find_transaction on directory d: the set of values it can
\* return.  read_dir enumerates in an unspecified order, and the first item
\* of the flattened stream is returned: the first item of any entry that
\* yields one; Err(DisputeTxNotFound) when no entry yields any.
find_transaction(d, tx) ==
    LET firsts == {Head(EntryItems(d, n, tx)) :
                     n \in {m \in DOMAIN d : EntryItems(d, m, tx) # <<>>}}
    IN  IF firsts = {} THEN {[ok |-> FALSE, err |-> "DisputeTxNotFound"]}
        ELSE firsts

(***************************************************************************)
(* State of a run of lib.rs `process`.                                     *)
(***************************************************************************)
VARIABLES
    pc,          \* where the single task of `process` is
    pos,         \* rows the decoder has yielded so far
    eof,         \* the decoder has ended
    chunk,       \* try_chunks: the buffer being filled, then the chunk emitted
    cursor,      \* index in chunk of the next transaction for the fold
    dir,         \* the block store directory: file name -> rows of the file
    persist,     \* locals of the persist_block call in progress
    accounts,    \* Accounts: client -> Account, for the clients seen
    last,        \* what the last TxProcessor::process call returned
    out,         \* snapshots written to the output
    result,      \* what `process` returned, "running" until it does
    \* History variables, read by the properties only.
    nChunks,     \* chunks emitted by try_chunks
    nPersisted,  \* persist_block calls completed
    persisted,   \* deposits of the chunks whose persist_block completed
    usedIds,     \* tx ids of the deposits and withdrawals decoded
    uniqueIds,   \* no deposit or withdrawal decoded reused a tx id
    seenDeposits,\* <<client, tx>> of the deposits handed to the processor
    applied,     \* <<client, tx>> of the deposits the processor answered with Ok
    ledger,      \* client -> deposits applied - withdrawals - chargebacks
    lastIdx,     \* client -> stream position of its last transaction handed over
    inputClass   \* the class of rows the decoder yields in this run

vars == <<pc, pos, eof, chunk, cursor, dir, persist, accounts, last, out, result,
          nChunks, nPersisted, persisted, usedIds, uniqueIds, seenDeposits, applied,
          ledger, lastIdx, inputClass>>

hist == <<nChunks, nPersisted, persisted, usedIds, uniqueIds, seenDeposits, applied,
          ledger, lastIdx, inputClass>>

\* The rows the decoder may yield, by input class.  "single": one client,
\* deposits of negative, small and maximal amounts, withdrawals, references
\* with and without an amount, a dispute of the withdrawals' tx id.
\* "multi": two clients with unit deposits, tx ids shared between the
\* clients.  "overflow": one client, a negative and a maximal deposit with
\* their disputes and chargebacks, in streams one row longer.
InputClasses == {"single", "multi", "overflow"}

RowsOf(types, clients, txs, amounts) ==
    {TxRecord(type, c, t, a) : type \in types, c \in clients, t \in txs, a \in amounts}

RefTypes == {"dispute", "resolve", "chargeback"}

InputRecords(class) ==
    IF class = "single"
    THEN RowsOf({"deposit"}, {1}, {1, 2}, {None} \cup {Some(x) : x \in Amounts})
         \cup RowsOf({"withdrawal"}, {1}, {3}, {None, Some(-1), Some(1)})
         \cup RowsOf(RefTypes, {1}, {1, 2}, {None, Some(1)})
         \cup RowsOf({"dispute"}, {1}, {3}, {None})
    ELSE IF class = "multi"
    THEN RowsOf({"deposit"}, Clients, {1, 2}, {Some(1)})
         \cup RowsOf(RefTypes, Clients, {1, 2}, {None})
    ELSE RowsOf({"deposit"}, {1}, {1}, {Some(-1)})
         \cup RowsOf({"deposit"}, {1}, {2}, {Some(DecimalMAX)})
         \cup RowsOf({"dispute", "chargeback"}, {1}, {1, 2}, {None})

\* The longest stream of an input class.
StreamBound(class) == IF class = "overflow" THEN MaxStream + 1 ELSE MaxStream

PersistIdle == [state |-> "idle"]

Init ==
    /\ pc = "read"
    /\ pos = 0
    /\ eof = FALSE
    /\ chunk = <<>>
    /\ cursor = 1
    /\ dir = [n \in {} |-> <<>>]
    /\ persist = PersistIdle
    /\ accounts = [c \in {} |-> empty(c)]
    /\ last = [level |-> "none", kind |-> "none"]
    /\ out = <<>>
    /\ result = "running"
    /\ nChunks = 0
    /\ nPersisted = 0
    /\ persisted = {}
    /\ usedIds = {}
    /\ uniqueIds = TRUE
    /\ seenDeposits = {}
    /\ applied = {}
    /\ ledger = [c \in Clients |-> 0]
    /\ lastIdx = [c \in Clients |-> 0]
    /\ inputClass \in InputClasses

(***************************************************************************)
(* lib.rs: transactions.try_chunks(TX_BLOCK_SIZE)                          *)
(***************************************************************************)
\* try_chunks hands its buffer on when it holds TX_BLOCK_SIZE items.
ChunkFull(items) == Len(items) = TX_BLOCK_SIZE

\* Clients are interchangeable: the first row of a stream is client 1's.
FirstClientFirst(rec) == pos = 0 => rec.client = 1

\* The decoder yields Ok(transaction).
DecodeOk ==
    /\ pc = "read"
    /\ ~eof
    /\ pos < StreamBound(inputClass)
    /\ \E rec \in InputRecords(inputClass) :
          LET d == try_from(rec) IN
          /\ d.ok
          /\ FirstClientFirst(rec)
          /\ chunk' = Append(chunk, d.txn)
          /\ pos' = pos + 1
          /\ IF d.txn.kind \in {"Deposit", "Withdrawal"}
             THEN /\ usedIds' = usedIds \cup {d.txn.tx}
                  /\ uniqueIds' = (uniqueIds /\ d.txn.tx \notin usedIds)
             ELSE UNCHANGED <<usedIds, uniqueIds>>
          /\ IF ChunkFull(chunk')
             THEN /\ pc' = "persist"
                  /\ nChunks' = nChunks + 1
             ELSE UNCHANGED <<pc, nChunks>>
    /\ UNCHANGED <<eof, cursor, dir, persist, accounts, last, out, result,
                   nPersisted, persisted, seenDeposits, applied, ledger, lastIdx, inputClass>>

\* The decoder yields Err: try_chunks gives TryChunksError(buffer, e), the
\* buffered transactions are dropped and `process` returns the error.
DecodeErr ==
    /\ pc = "read"
    /\ ~eof
    /\ pos < StreamBound(inputClass)
    /\ \E rec \in InputRecords(inputClass) :
          LET d == try_from(rec) IN
          /\ ~d.ok
          /\ result' = d.err
    /\ pc' = "failed"
    /\ pos' = pos + 1
    /\ chunk' = <<>>
    /\ UNCHANGED <<eof, cursor, dir, persist, accounts, last, out, hist>>

\* The decoder ends: try_chunks hands on a non-empty remainder, and the
\* fold ends otherwise.
DecodeEnd ==
    /\ pc = "read"
    /\ ~eof
    /\ eof' = TRUE
    /\ IF chunk # <<>>
       THEN /\ pc' = "persist"
            /\ nChunks' = nChunks + 1
       ELSE /\ pc' = "emit"
            /\ UNCHANGED nChunks
    /\ UNCHANGED <<pos, chunk, cursor, dir, persist, accounts, last, out, result,
                   nPersisted, persisted, usedIds, uniqueIds, seenDeposits, applied,
                   ledger, lastIdx, inputClass>>

(***************************************************************************)
(* tx_block_store.rs: TxBlockStore::persist_block(chunk), one action per   *)
(* await of it.                                                            *)
(***************************************************************************)
\* Mutant of NextDeposit: every transaction of the chunk is taken.
NextRecord(i) == IF i <= Len(chunk) THEN i ELSE 0

\* Index of the first deposit of the chunk at or after index i, 0 if none.
NextDeposit(i) ==
    LET m == {j \in i..Len(chunk) : IsDeposit(chunk[j])}
    IN  IF m = {} THEN 0 ELSE CHOOSE j \in m : \A k \in m : j <= k

\* File::create(path): a new empty file, or an existing one truncated.
FileCreate(d, file_name) ==
    [n \in DOMAIN d \cup {file_name} |-> IF n = file_name THEN <<>> ELSE d[n]]

\* The writer's flush: the buffered rows reach the file.
FileWrite(d, file_name, rows) ==
    [n \in DOMAIN d |-> IF n = file_name THEN rows ELSE d[n]]

\* tokio::fs::rename(from, to): `to` is replaced if it exists.
FileRename(d, from, to) ==
    [n \in (DOMAIN d \ {from}) \cup {to} |-> IF n = to THEN d[from] ELSE d[n]]

\* tx_min and tx_max of the first and last transaction name the file created.
PersistCreate ==
    /\ pc = "persist"
    /\ persist.state = "idle"
    /\ LET tx_min == chunk[1].tx
           tx_max == chunk[Len(chunk)].tx
           file_name == FileName(tx_min, tx_max)
       IN  /\ dir' = FileCreate(dir, file_name)
           /\ persist' = [state |-> "writing", file_name |-> file_name,
                          tx_min |-> tx_min, tx_max |-> tx_max,
                          next |-> 1, block_writer |-> <<>>]
    /\ UNCHANGED <<pc, pos, eof, chunk, cursor, accounts, last, out, result, hist>>

\* One step of the try_fold over the chunk's deposits: serialize the record
\* and widen the range.
PersistWrite ==
    /\ pc = "persist"
    /\ persist.state = "writing"
    /\ NextDeposit(persist.next) # 0
    /\ LET i == NextDeposit(persist.next)
           transaction == chunk[i]
       IN  persist' = [persist EXCEPT
                          !.block_writer = Append(@, SerializeRow(TxRecordFrom(transaction))),
                          !.tx_min = Min2(@, transaction.tx),
                          !.tx_max = Max2(@, transaction.tx),
                          !.next = i + 1]
    /\ UNCHANGED <<pc, pos, eof, chunk, cursor, dir, accounts, last, out, result, hist>>

\* block_writer.flush()
PersistFlush ==
    /\ pc = "persist"
    /\ persist.state = "writing"
    /\ NextDeposit(persist.next) = 0
    /\ dir' = FileWrite(dir, persist.file_name, persist.block_writer)
    /\ persist' = [persist EXCEPT !.state = "flushed"]
    /\ UNCHANGED <<pc, pos, eof, chunk, cursor, accounts, last, out, result, hist>>

\* The rename to `{tx_min}_{tx_max}.csv` when the name differs, and the
\* return of persist_block.
PersistRename ==
    /\ pc = "persist"
    /\ persist.state = "flushed"
    /\ LET min_max_file_name == FileName(persist.tx_min, persist.tx_max)
       IN  dir' = IF persist.file_name # min_max_file_name
                  THEN FileRename(dir, persist.file_name, min_max_file_name)
                  ELSE dir
    /\ persist' = [state |-> "returned"]
    /\ nPersisted' = nPersisted + 1
    /\ persisted' = persisted \cup {chunk[i] : i \in {j \in 1..Len(chunk) : IsDeposit(chunk[j])}}
    /\ UNCHANGED <<pc, pos, eof, chunk, cursor, accounts, last, out, result,
                   nChunks, usedIds, uniqueIds, seenDeposits, applied, ledger, lastIdx,
                   inputClass>>

\* An I/O failure of the step persist_block is at: `process` returns it.
PersistIoError ==
    /\ pc = "persist"
    /\ persist.state # "returned"
    /\ result' = IF persist.state = "idle" THEN "BlockFileCreate"
                 ELSE IF persist.state = "flushed" THEN "BlockFileRename"
                 ELSE IF NextDeposit(persist.next) # 0 THEN "BlockTxWrite"
                 ELSE "BlockFileFlush"
    /\ persist.state = "flushed" =>
          persist.file_name # FileName(persist.tx_min, persist.tx_max)
    /\ pc' = "failed"
    /\ UNCHANGED <<pos, eof, chunk, cursor, dir, persist, accounts, last, out, hist>>

(***************************************************************************)
(* lib.rs: the try_fold over the flattened stream.                         *)
(***************************************************************************)
\* A lookup that hands out an account of the map whatever its client.
EntryOrInsertShared(accs, client) ==
    IF DOMAIN accs # {} THEN accs[CHOOSE c \in DOMAIN accs : TRUE] ELSE empty(client)

\* accounts.entry(client).or_insert_with(|| Account::empty(client))
EntryOrInsert(accs, client) ==
    IF client \in DOMAIN accs THEN accs[client] ELSE empty(client)

\* Mutant of AwaitPersist: the stream is handed on once persist_block has
\* started, without awaiting its return.
AwaitPersistStarted(p) == p.state # "idle"

\* lib.rs and_then closure: `persist_block(&transactions).await ... ?` has
\* returned Ok(()) before `Ok(stream)` hands the chunk's transactions on.
AwaitPersist(p) == p.state = "returned"

\* The closure returns the stream of the chunk's transactions.
ChunkHandOff ==
    /\ pc = "persist"
    /\ AwaitPersist(persist)
    /\ pc' = "process"
    /\ cursor' = 1
    /\ persist' = PersistIdle
    /\ UNCHANGED <<pos, eof, chunk, dir, accounts, last, out, result, hist>>

\* Mutant of NextIndex: the chunk is handed on back to front.
NextIndexReversed == Len(chunk) - cursor + 1

\* stream::iter(transactions.into_iter()): the chunk's transactions in order.
NextIndex == cursor

\* The transaction the fold takes next from the chunk's stream.
NextTransaction == chunk[NextIndex]

\* Stream position (1-based) of the transaction at chunk index i.
StreamIdx(i) == pos - Len(chunk) + i

NotConsulted == [ok |-> TRUE, txn |-> None]

\* Mutant of Propagates: a business error ends the fold as well.
PropagatesAny(o) == o.level # "ok"

\* `TxProcessor::process(account, transaction)?`: Err(error) leaves the fold,
\* Ok(Ok(())) and Ok(Err(tx_error)) are dropped.
Propagates(o) == o.level = "fatal"

\* What the ledger gains by a successful transaction.
LedgerDelta(transaction, found) ==
    IF transaction.kind = "Deposit" THEN transaction.amount
    ELSE IF transaction.kind = "Withdrawal" THEN 0 - transaction.amount
    ELSE IF transaction.kind = "Chargeback" THEN 0 - Unwrap(found.txn).amount
    ELSE 0

\* One iteration of the fold: the account of the transaction's client is
\* looked up or inserted and TxProcessor::process runs on it; `?` returns a
\* fatal error and drops a business error.
ProcessTransaction ==
    /\ pc = "process"
    /\ cursor <= Len(chunk)
    /\ LET transaction == NextTransaction
           client == transaction.client
           account == EntryOrInsert(accounts, client)
       IN  \E found \in (IF ConsultsStore(account, transaction)
                         THEN find_transaction(dir, transaction.tx)
                         ELSE {NotConsulted}) :
             LET o == TxProcess(account, transaction, found) IN
             /\ accounts' = [c \in DOMAIN accounts \cup {client} |->
                                IF c = client THEN o.account ELSE accounts[c]]
             /\ last' = [level |-> o.level, kind |-> o.kind]
             /\ lastIdx' = [lastIdx EXCEPT ![client] = StreamIdx(NextIndex)]
             /\ seenDeposits' = IF IsDeposit(transaction)
                                THEN seenDeposits \cup {<<client, transaction.tx>>}
                                ELSE seenDeposits
             /\ applied' = IF IsDeposit(transaction) /\ o.level = "ok"
                           THEN applied \cup {<<client, transaction.tx>>}
                           ELSE applied
             /\ ledger' = IF o.level = "ok"
                          THEN [ledger EXCEPT ![client] = @ + LedgerDelta(transaction, found)]
                          ELSE ledger
             /\ IF Propagates(o)
                THEN /\ pc' = "failed"
                     /\ result' = o.kind
                     /\ UNCHANGED <<cursor, chunk>>
                ELSE IF o.level = "panic"
                THEN /\ pc' = "panicked"
                     /\ result' = "panic"
                     /\ UNCHANGED <<cursor, chunk>>
                ELSE IF cursor < Len(chunk)
                THEN /\ cursor' = cursor + 1
                     /\ UNCHANGED <<pc, chunk, result>>
                ELSE /\ cursor' = 1
                     /\ chunk' = <<>>
                     /\ pc' = IF eof THEN "emit" ELSE "read"
                     /\ UNCHANGED result
    /\ UNCHANGED <<pos, eof, dir, persist, out,
                   nChunks, nPersisted, persisted, usedIds, uniqueIds, inputClass>>

(***************************************************************************)
(* lib.rs: the output of the account snapshots.                            *)
(***************************************************************************)
\* The serialized Account: disputed_txs is skipped.
Snapshot(account) ==
    [client |-> account.client, available |-> account.available,
     held |-> account.held, total |-> account.total, locked |-> account.locked]

\* A writer that passes over the accounts no transaction has changed.
EmittedOrEmpty ==
    {out[i].client : i \in 1..Len(out)}
        \cup {c \in DOMAIN accounts : accounts[c] = empty(c)}

\* The clients whose snapshot has been written.
Emitted == {out[i].client : i \in 1..Len(out)}

\* A writer that serializes an account as soon as the map holds it, while the
\* stream is still being read.
EmitAccountEarly ==
    /\ pc \in {"emit", "read"}
    /\ \E c \in DOMAIN accounts \ Emitted :
          out' = Append(out, Snapshot(accounts[c]))
    /\ UNCHANGED <<pc, pos, eof, chunk, cursor, dir, persist, accounts, last, result, hist>>

\* accounts.into_values() yields the accounts in an unspecified order.
EmitAccount ==
    /\ pc = "emit"
    /\ \E c \in DOMAIN accounts \ Emitted :
          out' = Append(out, Snapshot(accounts[c]))
    /\ UNCHANGED <<pc, pos, eof, chunk, cursor, dir, persist, accounts, last, result, hist>>

\* writer.flush() and Ok(())
EmitFlush ==
    /\ pc = "emit"
    /\ DOMAIN accounts \ Emitted = {}
    /\ pc' = "done"
    /\ result' = "Ok"
    /\ UNCHANGED <<pos, eof, chunk, cursor, dir, persist, accounts, last, out, hist>>

Next ==
    \/ DecodeOk
    \/ DecodeErr
    \/ DecodeEnd
    \/ PersistCreate
    \/ PersistWrite
    \/ PersistFlush
    \/ PersistRename
    \/ PersistIoError
    \/ ChunkHandOff
    \/ ProcessTransaction
    \/ EmitAccount
    \/ EmitFlush

Spec == Init /\ [][Next]_vars

(***************************************************************************)
(* Properties.                                                             *)
(***************************************************************************)
\* The step hands transaction NextTransaction to the processor.
Processing == pc = "process" /\ cursor <= Len(chunk)

\* C1: in every reachable account state, total = available + held.
C1_TotalIsSum ==
    \A c \in DOMAIN accounts :
        accounts[c].total = accounts[c].available + accounts[c].held

\* C1 witness: an account holding both available and held funds.
C1_Witness ==
    \E c \in DOMAIN accounts :
        /\ accounts[c].available > 0
        /\ accounts[c].held > 0
        /\ accounts[c].total = accounts[c].available + accounts[c].held

\* C2: in every reachable account state, available >= 0 and held >= 0
\* (stated as claimed; the code violates it).
C2_NonNegative ==
    \A c \in DOMAIN accounts :
        accounts[c].available >= 0 /\ accounts[c].held >= 0

\* C3: once an account is locked, no step changes any of its fields.
C3_LockedFrozen ==
    [][\A c \in DOMAIN accounts :
          accounts[c].locked => (c \in DOMAIN accounts' /\ accounts'[c] = accounts[c])]_vars

\* C3 witness: a transaction was handed to the processor for a locked
\* account and rejected by the gate.
C3_Witness ==
    \E c \in DOMAIN accounts :
        /\ accounts[c].locked
        /\ last.kind = "AccountLocked"

\* C4: a Dispute of a tx already in the account's disputed_txs leaves
\* available and held as they were (stated as claimed; the code violates it).
C4_SecondDisputeMovesNothing ==
    [][(/\ Processing
        /\ NextTransaction.kind = "Dispute"
        /\ NextTransaction.client \in DOMAIN accounts
        /\ NextTransaction.tx \in accounts[NextTransaction.client].disputed_txs)
       => (/\ accounts'[NextTransaction.client].available
                = accounts[NextTransaction.client].available
           /\ accounts'[NextTransaction.client].held
                = accounts[NextTransaction.client].held)]_vars

\* C5: every tx in an account's disputed_txs is the tx of a deposit of the
\* same client that the stream held strictly before the dispute, that is, of
\* a deposit already handed to the processor (stated as claimed; the code
\* violates it).
C5_DisputedHasPriorDeposit ==
    \A c \in DOMAIN accounts :
        \A t \in accounts[c].disputed_txs : <<c, t>> \in seenDeposits

\* C6: for every client and every prefix of the stream, total equals the
\* deposits applied minus the withdrawals applied minus the deposit amounts
\* charged back (stated as claimed; the code violates it).
C6_TotalIsLedger ==
    \A c \in DOMAIN accounts : accounts[c].total = ledger[c]

\* The rows of deposit d in file n of the directory.
HoldsDeposit(n, d) ==
    \E i \in 1..Len(dir[n]) : dir[n][i] = SerializeRow(TxRecordFrom(d))

InRange(n, tx) ==
    /\ IsSome(parse_min_max_tx(n))
    /\ block_may_have_transaction(Unwrap(parse_min_max_tx(n))[1],
                                  Unwrap(parse_min_max_tx(n))[2], tx)

Found(d) == [ok |-> TRUE, txn |-> Some(d)]

\* C7: with unique tx ids, after any sequence of persist_block calls every
\* deposit of every persisted chunk is in exactly one block file whose name
\* range includes its tx, and find_transaction returns it (stated as
\* claimed; the code violates it).
C7_EveryDepositInOneBlock ==
    (uniqueIds /\ persist.state \in {"idle", "returned"})
    => \A d \in persisted :
          /\ Cardinality({n \in DOMAIN dir : HoldsDeposit(n, d)}) = 1
          /\ \A n \in DOMAIN dir : HoldsDeposit(n, d) => InRange(n, d.tx)
          /\ find_transaction(dir, d.tx) = {Found(d)}

UniqueDepositTx(ds) == \A d1, d2 \in ds : d1.tx = d2.tx => d1 = d2

\* C8: after one chunk with unique deposit ids is persisted into the empty
\* store, find_transaction of each of its deposit ids returns the deposit
\* with the same client and amount.
C8_RoundTrip ==
    (nChunks = 1 /\ nPersisted = 1 /\ UniqueDepositTx(persisted))
    => \A d \in persisted : find_transaction(dir, d.tx) = {Found(d)}

\* C8 witness: a first chunk of two deposits, one of a negative amount,
\* the larger tx id first, has been persisted.
C8_Witness ==
    /\ nChunks = 1
    /\ nPersisted = 1
    /\ UniqueDepositTx(persisted)
    /\ Cardinality(persisted) = 2
    /\ \E d \in persisted : d.amount < 0
    /\ Len(chunk) = 2 /\ IsDeposit(chunk[1]) /\ IsDeposit(chunk[2])
    /\ chunk[1].tx > chunk[2].tx
    /\ \A d \in persisted : find_transaction(dir, d.tx) = {Found(d)}

\* C9: whenever a transaction of chunk n is about to be handed to the
\* processor, persist_block(chunk n) has returned: no persist_block call is
\* in progress, as many calls have completed as chunks were emitted, and the
\* chunk's deposits are in files of the directory.
C9_PersistBeforeProcess ==
    Processing
    => /\ persist.state = "idle"
       /\ nPersisted = nChunks
       /\ \A i \in 1..Len(chunk) :
             IsDeposit(chunk[i]) => \E n \in DOMAIN dir : HoldsDeposit(n, chunk[i])

\* C9 witness: the first transaction of the second chunk, a chunk with a
\* deposit, is about to be processed.
C9_Witness ==
    /\ Processing
    /\ cursor = 1
    /\ nChunks = 2
    /\ nPersisted = 2
    /\ \E i \in 1..Len(chunk) : IsDeposit(chunk[i])

\* C10: the transactions handed to the processor for a client are handed in
\* stream order: the stream position of a client's latest transaction only
\* grows, and the fold hands over exactly the next position of the stream.
C10_InputOrder ==
    [][/\ \A c \in Clients : lastIdx'[c] >= lastIdx[c]
       /\ Processing
            => lastIdx'[NextTransaction.client] = pos - Len(chunk) + cursor]_vars

\* C10 witness: both clients have transactions in both chunks, all handed on.
C10_Witness ==
    /\ lastIdx[1] = 3
    /\ lastIdx[2] = 4
    /\ DOMAIN accounts = {1, 2}
    /\ accounts[1].total > 0
    /\ accounts[2].total > 0

\* The account TxProcessor::process is called on in a Processing state.
AccountBefore == EntryOrInsert(accounts, NextTransaction.client)

\* The first transaction of a chunk of two has been handled and was of
\* kind k.
FirstHandled(k) ==
    /\ pc = "process"
    /\ cursor = 2
    /\ chunk[1].kind = k

\* C11: whenever TxProcessor::process returns a business error, the account
\* it was called on is left with all its fields as before the call.
C11_BusinessErrorNoChange ==
    [][(Processing /\ last'.level = "tx_error")
       => accounts'[NextTransaction.client] = AccountBefore]_vars

\* C11 witness: a withdrawal was refused for insufficient available funds
\* on an account that holds funds.
C11_Witness ==
    /\ FirstHandled("Withdrawal")
    /\ last.kind = "WithdrawalInsufficientAvailable"
    /\ accounts[chunk[1].client].held > 0
    /\ accounts[chunk[1].client].total = accounts[chunk[1].client].held

\* The Error kinds `process` returns.
FatalKinds ==
    {"DepositAmountNotProvided", "WithdrawalAmountNotProvided",
     "TransactionDeserialize", "BlockFileCreate", "BlockTxWrite",
     "BlockFileFlush", "BlockFileRename", "BlockFileNameInvalid",
     "DisputeTxNotFound"}

\* C12: a step in which the processor returns a business error leaves the
\* pipeline running, and a run that ends with Ok has handed every decoded
\* transaction to the processor; a fatal error of the processor, the block
\* store or the decoder makes `process` return that error, and no step
\* follows it.
C12_ContinuePastBusinessErrors ==
    [][/\ (Processing /\ last'.level = "tx_error")
            => /\ pc' \in {"process", "read", "emit"}
               /\ result' = "running"
               /\ cursor < Len(chunk) => (cursor' = cursor + 1 /\ chunk' = chunk)
       /\ pc' = "done"
            => /\ DOMAIN accounts' = {} => pos' = 0
               /\ \A c \in DOMAIN accounts' :
                     (\A d \in DOMAIN accounts' : lastIdx'[c] >= lastIdx'[d])
                     => lastIdx'[c] = pos'
       /\ (Processing /\ last'.level = "fatal")
            => (pc' = "failed" /\ result' = last'.kind)
       /\ pc' = "failed" => (result' \in FatalKinds /\ out' = <<>>)
       /\ pc # "failed"]_vars

\* C12 witness: client 1's two transactions were one applied deposit and
\* one business error, and client 2's deposit after them was applied.
C12_Witness ==
    /\ DOMAIN accounts = {1, 2}
    /\ lastIdx[1] = 2
    /\ lastIdx[2] = 3
    /\ accounts[1].available = 1 /\ accounts[1].held = 0
    /\ accounts[2].available = 1
    /\ last.level = "ok"

\* C13: a Dispute whose tx no block of the store holds leaves the account
\* unchanged and does not end the run (stated as claimed; the code violates
\* it).
C13_UnknownDisputeNotFatal ==
    [][(/\ Processing
        /\ NextTransaction.kind = "Dispute"
        /\ ~AccountBefore.locked
        /\ find_transaction(dir, NextTransaction.tx)
             = {[ok |-> FALSE, err |-> "DisputeTxNotFound"]})
       => (/\ accounts'[NextTransaction.client] = AccountBefore
           /\ pc' \in {"process", "read", "emit"}
           /\ result' = "running")]_vars

\* C14: on a locked account process returns AccountLocked for a transaction
\* of any variant, whatever else is wrong with it and whatever the block
\* store would answer, and the account and the run are left as they were.
C14_LockedGateFirst ==
    [][(Processing /\ AccountBefore.locked)
       => (/\ last' = [level |-> "tx_error", kind |-> "AccountLocked"]
           /\ accounts'[NextTransaction.client] = AccountBefore
           /\ pc' \in {"process", "read", "emit"}
           /\ ~ConsultsStore(AccountBefore, NextTransaction)
           /\ \A found \in find_transaction(dir, NextTransaction.tx) \cup {NotConsulted} :
                 /\ TxProcess(AccountBefore, NextTransaction, found).kind = "AccountLocked"
                 /\ TxProcess(AccountBefore, NextTransaction, found).error
                      = [client |-> NextTransaction.client, tx |-> NextTransaction.tx])]_vars

\* C14 witness: the fourth row, a deposit of a negative amount, was
\* rejected with AccountLocked on the account the first three rows locked.
C14_Witness ==
    /\ last.kind = "AccountLocked"
    /\ \E c \in DOMAIN accounts :
          /\ accounts[c].locked
          /\ accounts[c].total = 0
          /\ lastIdx[c] = 4
    /\ Cardinality(seenDeposits) = 2
    /\ \E d \in persisted : d.amount < 0

\* C15: a Resolve or Chargeback whose tx is not in the account's
\* disputed_txs leaves the account unchanged (a chargeback does not lock
\* it) and the run going, and on an unlocked account it returns
\* ResolveTxNotInDispute / ChargebackTxNotInDispute.
C15_NotInDisputeIgnored ==
    [][(/\ Processing
        /\ NextTransaction.kind \in {"Resolve", "Chargeback"}
        /\ NextTransaction.tx \notin AccountBefore.disputed_txs)
       => (/\ accounts'[NextTransaction.client] = AccountBefore
           /\ pc' \in {"process", "read", "emit"}
           /\ ~AccountBefore.locked
                => last' = [level |-> "tx_error",
                            kind |-> IF NextTransaction.kind = "Resolve"
                                     THEN "ResolveTxNotInDispute"
                                     ELSE "ChargebackTxNotInDispute"])]_vars

\* C15 witness: client 2's chargeback of a tx that is in dispute on client
\* 1's account was refused, and neither account is locked.
C15_Witness ==
    /\ FirstHandled("Chargeback")
    /\ chunk[1].client = 2
    /\ last.kind = "ChargebackTxNotInDispute"
    /\ DOMAIN accounts = {1, 2}
    /\ chunk[1].tx \in accounts[1].disputed_txs
    /\ ~accounts[1].locked /\ ~accounts[2].locked
    /\ accounts[2] = empty(2)

\* C16: a successful Deposit is of a non-negative amount on an unlocked
\* account, adds the amount to available, sets total to the new available
\* plus held, and leaves held, locked and disputed_txs unchanged.
C16_DepositEffect ==
    [][(Processing /\ NextTransaction.kind = "Deposit" /\ last'.level = "ok")
       => (/\ NextTransaction.amount >= 0
           /\ ~AccountBefore.locked
           /\ accounts'[NextTransaction.client]
                = [AccountBefore EXCEPT
                     !.available = AccountBefore.available + NextTransaction.amount,
                     !.total = AccountBefore.available + NextTransaction.amount
                               + AccountBefore.held])]_vars

\* C16 witness: a deposit was applied to an account with available and held
\* funds and a tx in dispute.
C16_Witness ==
    /\ FirstHandled("Deposit")
    /\ last.level = "ok"
    /\ accounts[chunk[1].client].held > 0
    /\ accounts[chunk[1].client].available = chunk[1].amount
    /\ accounts[chunk[1].client].disputed_txs # {}

\* The unlocked Account values of client c that Account::try_new builds.
UnlockedAccounts(c) ==
    {Unwrap(try_new(c, p[1], p[2], FALSE, txs)) :
        p \in {q \in (DecimalMIN..DecimalMAX) \X (DecimalMIN..DecimalMAX) :
                  IsSome(checked_add(q[1], q[2]))},
        txs \in SUBSET {1}}

\* C17: on an unlocked account a Deposit or Withdrawal of a negative amount
\* returns DepositAmountNegative / WithdrawalAmountNegative with the
\* client, tx and amount, and the account is unchanged; the same answer is
\* given on every account value, whatever its available amount, so that no
\* overflow or insufficient-funds answer comes first.
C17_NegativeAmountRejected ==
    [][(/\ Processing
        /\ NextTransaction.kind \in {"Deposit", "Withdrawal"}
        /\ NextTransaction.amount < 0
        /\ ~AccountBefore.locked)
       => LET kind == IF NextTransaction.kind = "Deposit"
                      THEN "DepositAmountNegative"
                      ELSE "WithdrawalAmountNegative"
          IN  /\ last' = [level |-> "tx_error", kind |-> kind]
              /\ accounts'[NextTransaction.client] = AccountBefore
              /\ \A a \in UnlockedAccounts(NextTransaction.client) \cup {AccountBefore} :
                    TxProcess(a, NextTransaction, NotConsulted)
                      = TxErr(a, kind, [client |-> NextTransaction.client,
                                        tx |-> NextTransaction.tx,
                                        amount |-> NextTransaction.amount])]_vars

\* C17 witness: a withdrawal of a negative amount was refused on an account
\* with available funds.
C17_Witness ==
    /\ FirstHandled("Withdrawal")
    /\ chunk[1].amount < 0
    /\ last.kind = "WithdrawalAmountNegative"
    /\ accounts[chunk[1].client].available > 0

\* C18: a non-negative deposit on an unlocked account whose sum with
\* available exceeds DecimalMAX fails with DepositAvailableOverflow; one
\* whose sum fits but exceeds DecimalMAX together with held fails with
\* DepositTotalOverflow; the account is unchanged in both cases and no
\* amount of an account leaves the range.
C18_DepositOverflow ==
    [][(/\ Processing
        /\ NextTransaction.kind = "Deposit"
        /\ NextTransaction.amount >= 0
        /\ ~AccountBefore.locked)
       => LET sum == AccountBefore.available + NextTransaction.amount
              after == accounts'[NextTransaction.client]
          IN  /\ sum > DecimalMAX
                  => /\ last' = [level |-> "tx_error", kind |-> "DepositAvailableOverflow"]
                     /\ after = AccountBefore
              /\ (sum <= DecimalMAX /\ sum + AccountBefore.held > DecimalMAX)
                  => /\ last' = [level |-> "tx_error", kind |-> "DepositTotalOverflow"]
                     /\ after = AccountBefore
              /\ after.available \in DecimalMIN..DecimalMAX
              /\ after.held \in DecimalMIN..DecimalMAX
              /\ after.total \in DecimalMIN..DecimalMAX
              /\ after.available >= AccountBefore.available]_vars

\* C18 witness: a deposit that fits available was refused because available
\* and held together would exceed the maximum.
C18_Witness ==
    /\ FirstHandled("Deposit")
    /\ last.kind = "DepositTotalOverflow"
    /\ accounts[chunk[1].client].available + chunk[1].amount <= DecimalMAX
    /\ accounts[chunk[1].client].held > 0

\* C19: a Withdrawal on an unlocked account succeeds exactly when
\* 0 <= amount <= available; then available and total decrease by the
\* amount and nothing else changes; a non-negative amount above available
\* returns WithdrawalInsufficientAvailable and leaves the account unchanged.
C19_WithdrawalEffect ==
    [][(/\ Processing
        /\ NextTransaction.kind = "Withdrawal"
        /\ ~AccountBefore.locked)
       => LET amount == NextTransaction.amount
              after == accounts'[NextTransaction.client]
          IN  /\ last'.level = "ok" <=> (0 <= amount /\ amount <= AccountBefore.available)
              /\ last'.level \in {"ok", "tx_error"}
              /\ last'.level = "ok"
                  => after = [AccountBefore EXCEPT
                                !.available = AccountBefore.available - amount,
                                !.total = AccountBefore.total - amount]
              /\ (0 <= amount /\ amount > AccountBefore.available)
                  => /\ last' = [level |-> "tx_error",
                                 kind |-> "WithdrawalInsufficientAvailable"]
                     /\ after = AccountBefore]_vars

\* C19 witness: a withdrawal of all the available funds was applied.
C19_Witness ==
    /\ FirstHandled("Withdrawal")
    /\ last.level = "ok"
    /\ chunk[1].amount > 0
    /\ accounts[chunk[1].client].available = 0
    /\ accounts[chunk[1].client].total = 0

\* C20: a successful Dispute found a deposit of the same client with
\* amount <= available, and it sets available to available - amount and
\* held to held + amount, inserts tx into disputed_txs and leaves total and
\* locked unchanged (stated as claimed; the code violates it).
C20_DisputeEffect ==
    [][(Processing /\ NextTransaction.kind = "Dispute" /\ last'.level = "ok")
       => \E found \in find_transaction(dir, NextTransaction.tx) :
             /\ found.ok
             /\ IsDeposit(Unwrap(found.txn))
             /\ Unwrap(found.txn).client = NextTransaction.client
             /\ Unwrap(found.txn).amount <= AccountBefore.available
             /\ accounts'[NextTransaction.client]
                  = [AccountBefore EXCEPT
                       !.available = AccountBefore.available - Unwrap(found.txn).amount,
                       !.held = AccountBefore.held + Unwrap(found.txn).amount,
                       !.disputed_txs = AccountBefore.disputed_txs
                                        \cup {NextTransaction.tx}]]_vars

\* C21: a successful Resolve found a deposit of a tx in disputed_txs with
\* amount <= held, and it sets held to held - amount and available to
\* available + amount, removes tx from disputed_txs and leaves total and
\* locked unchanged; a Resolve applied right after a successful Dispute of
\* the same tx restores available, held and total to their values before
\* the dispute (stated as claimed; the code violates it).
C21_ResolveEffect ==
    [][/\ (Processing /\ NextTransaction.kind = "Resolve" /\ last'.level = "ok")
          => \E found \in find_transaction(dir, NextTransaction.tx) :
                /\ found.ok
                /\ NextTransaction.tx \in AccountBefore.disputed_txs
                /\ Unwrap(found.txn).amount <= AccountBefore.held
                /\ accounts'[NextTransaction.client]
                     = [AccountBefore EXCEPT
                          !.held = AccountBefore.held - Unwrap(found.txn).amount,
                          !.available = AccountBefore.available + Unwrap(found.txn).amount,
                          !.disputed_txs = AccountBefore.disputed_txs
                                           \ {NextTransaction.tx}]
       /\ (Processing /\ NextTransaction.kind = "Dispute" /\ last'.level = "ok")
          => \A found \in find_transaction(dir, NextTransaction.tx) :
                LET resolved == TxProcess(accounts'[NextTransaction.client],
                                          Resolve(NextTransaction.client, NextTransaction.tx),
                                          found)
                IN  resolved.level = "ok"
                    => /\ resolved.account.available = AccountBefore.available
                       /\ resolved.account.held = AccountBefore.held
                       /\ resolved.account.total = AccountBefore.total]_vars

\* The unlocked Account values of client c that hold tx in dispute.
AccountsDisputing(c, tx) ==
    {Unwrap(try_new(c, p[1], p[2], FALSE, {tx})) :
        p \in {q \in (DecimalMIN..DecimalMAX) \X (DecimalMIN..DecimalMAX) :
                  IsSome(checked_add(q[1], q[2]))}}

\* C22: a successful Chargeback found a deposit of a tx in disputed_txs
\* with amount <= held, and it sets held to held - amount, leaves available
\* unchanged, decreases total by the amount, sets locked and removes tx from
\* disputed_txs; this on the account of the run and on every account value
\* that holds the tx in dispute (stated as claimed; the code violates it).
C22_ChargebackEffect ==
    [][(Processing /\ NextTransaction.kind = "Chargeback")
       => \A found \in find_transaction(dir, NextTransaction.tx) :
            \A a \in {AccountBefore}
                     \cup AccountsDisputing(NextTransaction.client, NextTransaction.tx) :
               LET o == TxProcess(a, NextTransaction,
                                  IF ConsultsStore(a, NextTransaction)
                                  THEN found ELSE NotConsulted)
               IN  o.level = "ok"
                   => /\ found.ok
                      /\ NextTransaction.tx \in a.disputed_txs
                      /\ Unwrap(found.txn).amount <= a.held
                      /\ o.account
                           = [a EXCEPT
                                !.held = a.held - Unwrap(found.txn).amount,
                                !.total = a.total - Unwrap(found.txn).amount,
                                !.locked = TRUE,
                                !.disputed_txs = a.disputed_txs \ {NextTransaction.tx}]]_vars

\* The tx ids of the deposits of the chunk in hand.
ChunkDepositIds == {chunk[i].tx : i \in {j \in 1..Len(chunk) : IsDeposit(chunk[j])}}

SetMin(S) == CHOOSE x \in S : \A y \in S : x <= y

SetMax(S) == CHOOSE x \in S : \A y \in S : x >= y

\* C23: when persist_block has returned for a chunk with at least one
\* deposit, the chunk's deposits are in the file named after the smallest
\* and the largest tx id among them (stated as claimed; the code violates
\* it).
C23_NameIsDepositRange ==
    (pc = "persist" /\ persist.state = "returned" /\ ChunkDepositIds # {})
    => LET n == FileName(SetMin(ChunkDepositIds), SetMax(ChunkDepositIds))
       IN  /\ n \in DOMAIN dir
           /\ \A i \in 1..Len(chunk) : IsDeposit(chunk[i]) => HoldsDeposit(n, chunk[i])

NotFound == [ok |-> FALSE, err |-> "DisputeTxNotFound"]

\* The tx ids decoded for withdrawals only.
WithdrawalOnlyIds == usedIds \ ({d.tx : d \in persisted} \cup ChunkDepositIds)

C25_NotFoundIfNotPersisted ==
    (Processing /\ cursor = 1)
    => \A tx \in TxIds \ {d.tx : d \in persisted} :
          find_transaction(dir, tx) = {NotFound}

\* C25 witness: a tx that is no persisted deposit's id is in the range of an
\* empty block and of a block with rows, and is not found.
C25_Witness ==
    /\ Processing
    /\ cursor = 1
    /\ \E tx \in TxIds \ {d.tx : d \in persisted} :
          /\ \E n \in DOMAIN dir : InRange(n, tx) /\ dir[n] = <<>>
          /\ \E m \in DOMAIN dir : InRange(m, tx) /\ dir[m] # <<>>
          /\ find_transaction(dir, tx) = {NotFound}

\* Directory d with one more file, of a name that is no `{u32}_{u32}.<ext>`.
WithForeignFile(d) ==
    [n \in DOMAIN d \cup {"blocks.tmp"} |-> IF n \in DOMAIN d THEN d[n] ELSE <<>>]

\* C26: in a directory that holds a file of an invalid name,
\* find_transaction answers BlockFileNameInvalid for every tx, whatever the
\* order in which the directory is enumerated (stated as claimed; the code
\* violates it).
C26_InvalidNameReported ==
    (Processing /\ cursor = 1)
    => \A tx \in TxIds :
          find_transaction(WithForeignFile(dir), tx)
            = {[ok |-> FALSE, err |-> "BlockFileNameInvalid"]}

\* What the decoder owes for a record: the specific error for a deposit or a
\* withdrawal without amount, the transaction for a dispute, resolve or
\* chargeback with or without one.
DecodesAsSpecified(rec) ==
    LET d == StreamItem(SerializeRow(rec)) IN
    /\ d = try_from(rec)
    /\ (rec.type = "deposit" /\ ~IsSome(rec.amount))
          => d = [ok |-> FALSE, err |-> "DepositAmountNotProvided"]
    /\ (rec.type = "withdrawal" /\ ~IsSome(rec.amount))
          => d = [ok |-> FALSE, err |-> "WithdrawalAmountNotProvided"]
    /\ rec.type = "dispute"
          => d = [ok |-> TRUE, txn |-> Dispute(rec.client, rec.tx)]
    /\ rec.type = "resolve"
          => d = [ok |-> TRUE, txn |-> Resolve(rec.client, rec.tx)]
    /\ rec.type = "chargeback"
          => d = [ok |-> TRUE, txn |-> Chargeback(rec.client, rec.tx)]

\* C27: a deposit or withdrawal record without amount fails to decode with
\* DepositAmountNotProvided / WithdrawalAmountNotProvided, and `process`
\* returns that error with nothing emitted; a dispute, resolve or chargeback
\* record decodes with or without an amount.
C27_MissingAmountFatal ==
    [][pc = "read"
       => /\ \A rec \in InputRecords(inputClass) : DecodesAsSpecified(rec)
          /\ pc' = "failed"
             => /\ result' \in {"DepositAmountNotProvided",
                                "WithdrawalAmountNotProvided"}
                /\ \E rec \in InputRecords(inputClass) :
                      /\ rec.type \in {"deposit", "withdrawal"}
                      /\ ~IsSome(rec.amount)
                      /\ result' = try_from(rec).err
                /\ out' = <<>>
                /\ accounts' = accounts
          /\ pc' # "failed" => result' = result]_vars

C27_Witness ==
    /\ pc = "failed"
    /\ result = "WithdrawalAmountNotProvided"
    /\ pos = 4
    /\ nPersisted = 1
    /\ out = <<>>
    /\ \E rec \in InputRecords(inputClass) :
          rec.type \in RefTypes /\ IsSome(rec.amount) /\ try_from(rec).ok

\* The clients named by a transaction of the input stream read so far.
StreamClients ==
    {c \in Clients : lastIdx[c] > 0} \cup {chunk[i].client : i \in 1..Len(chunk)}

\* C28: when `process` returns Ok, the output holds exactly one snapshot for
\* every client named by a transaction of the input, the clients all of whose
\* transactions were rejected included, and none for any other client.
C28_OneSnapshotPerClient ==
    pc = "done"
    => /\ \A c \in StreamClients :
             Cardinality({i \in 1..Len(out) : out[i].client = c}) = 1
       /\ \A i \in 1..Len(out) :
             /\ out[i].client \in StreamClients
             /\ out[i] = Snapshot(accounts[out[i].client])

C28_Witness ==
    /\ pc = "done"
    /\ Len(out) = 2
    /\ ledger[2] = 0
    /\ lastIdx[2] > 0
    /\ last.level = "tx_error"
    /\ \E i \in 1..Len(out) : out[i] = Snapshot(empty(2))
    /\ \E i \in 1..Len(out) : out[i].client = 1 /\ out[i].total > 0

\* find_transaction's answers for the transaction at hand are all a deposit
\* of another client than the transaction's.
FoundBelongsToOther ==
    \A f \in find_transaction(dir, NextTransaction.tx) :
       f.ok /\ IsSome(f.txn) /\ Unwrap(f.txn).client # NextTransaction.client

\* C29: processing a transaction leaves the account of every client other
\* than the transaction's as it was and adds no account but that client's;
\* and on an unlocked account a Dispute of a deposit that belongs to another
\* client returns DisputeClientMismatch (naming the tx and the two clients)
\* and leaves the disputing client's account unchanged as well.
C29_OnlyOwnAccountChanges ==
    [][Processing
       => /\ DOMAIN accounts' = DOMAIN accounts \cup {NextTransaction.client}
          /\ \A c \in DOMAIN accounts \ {NextTransaction.client} :
                accounts'[c] = accounts[c]
          /\ (NextTransaction.kind = "Dispute" /\ ~AccountBefore.locked)
             => /\ \A b \in Clients \ {NextTransaction.client} :
                   \A amount \in Amounts :
                      TxProcess(AccountBefore, NextTransaction,
                                [ok |-> TRUE,
                                 txn |-> Some(Deposit(b, NextTransaction.tx, amount))])
                        = TxErr(AccountBefore, "DisputeClientMismatch",
                                [tx |-> NextTransaction.tx,
                                 dispute_tx_client |-> NextTransaction.client,
                                 disputed_tx_client |-> b])
                /\ FoundBelongsToOther
                   => /\ last' = [level |-> "tx_error",
                                  kind |-> "DisputeClientMismatch"]
                      /\ accounts' = [c \in DOMAIN accounts' |->
                                        IF c = NextTransaction.client
                                        THEN AccountBefore ELSE accounts[c]]]_vars

C29_Witness ==
    /\ FirstHandled("Dispute")
    /\ last = [level |-> "tx_error", kind |-> "DisputeClientMismatch"]
    /\ chunk[1].client = 1
    /\ uniqueIds
    /\ persisted = {Deposit(1, 1, 1), Deposit(2, 2, 1)}
    /\ find_transaction(dir, chunk[1].tx) = {[ok |-> TRUE, txn |-> Some(Deposit(2, chunk[1].tx, 1))]}
    /\ DOMAIN accounts = {1, 2}
    /\ accounts[1].available = 1
    /\ accounts[2].available = 1

\* The block files an earlier persist_block call has produced: all the files
\* of the directory but the one the call in progress is writing.
EarlierBlockFiles ==
    IF persist.state \in {"writing", "flushed"}
    THEN DOMAIN dir \ {persist.file_name}
    ELSE DOMAIN dir

\* C30: no step of a persist_block call truncates, overwrites, renames or
\* removes a block file that an earlier call produced, neither the creation
\* of its initial file nor the rename to the final name (stated as claimed;
\* the code violates it).
C30_BlockFilesImmutable ==
    [][pc = "persist"
       => \A n \in EarlierBlockFiles :
             n \in DOMAIN dir' /\ dir'[n] = dir[n]]_vars

\* Stream position of the transaction handed to the processor last, 0 if
\* none was.
LastHanded == SetMax({lastIdx[c] : c \in Clients})

\* The rows persist_block owes for a chunk: its deposits, in order.
DepositRows(transactions) ==
    LET deposits == SelectSeq(transactions, IsDeposit)
    IN  [i \in 1..Len(deposits) |-> SerializeRow(TxRecordFrom(deposits[i]))]

\* The run has ended otherwise than by a decode error or an I/O failure of
\* the block store.
EndedAfterDecoding ==
    /\ pc \in {"emit", "done", "failed", "panicked"}
    /\ result \notin {"DepositAmountNotProvided", "WithdrawalAmountNotProvided",
                      "TransactionDeserialize", "BlockFileCreate", "BlockTxWrite",
                      "BlockFileFlush", "BlockFileRename"}

\* C31: persist_block is never called with an empty chunk and writes each
\* deposit of its chunk once; the fold hands on the transactions one by one
\* in stream order; and when the run ends on a decoded stream, every decoded
\* transaction, those of a short final chunk included, was handed to the
\* processor and every chunk was persisted (stated as claimed; the code
\* violates the last part).
C31_EveryTransactionOnce ==
    /\ pc = "persist" => chunk # <<>>
    /\ (pc = "persist" /\ persist.state = "flushed")
          => persist.block_writer = DepositRows(chunk)
    /\ Processing => StreamIdx(NextIndex) = LastHanded + 1
    /\ EndedAfterDecoding => (LastHanded = pos /\ nPersisted = nChunks)

\* What find_transaction may hand to a dispute of tx: nothing found, or a
\* deposit of that tx of any client and amount.
DisputeFindings(tx) ==
    {NotFound} \cup {[ok |-> TRUE, txn |-> Some(Deposit(b, tx, amount))] :
                        b \in Clients, amount \in Amounts}

\* The answer the order of the checks gives a dispute on account a.
DisputeAnswer(a, dispute, f) ==
    IF ~f.ok THEN "DisputeTxNotFound"
    ELSE IF Unwrap(f.txn).client # dispute.client THEN "DisputeClientMismatch"
    ELSE IF Unwrap(f.txn).amount > a.available THEN "DisputeInsufficientAvailable"
    ELSE IF a.held + Unwrap(f.txn).amount \notin DecimalMIN..DecimalMAX
    THEN "DisputeHeldOverflow"
    ELSE "Ok"

\* C32: a Dispute on an unlocked account reports the first that holds of
\* not found, client mismatch, amount > available and held + amount
\* overflow, and leaves the account unchanged in each of these cases; this
\* for the account and the store of the run and for every account value and
\* finding.
C32_DisputeCheckOrder ==
    [][(Processing /\ NextTransaction.kind = "Dispute" /\ ~AccountBefore.locked)
       => /\ \A a \in UnlockedAccounts(NextTransaction.client) \cup {AccountBefore} :
             \A f \in DisputeFindings(NextTransaction.tx) :
                LET o == TxProcess(a, NextTransaction, f)
                    answer == DisputeAnswer(a, NextTransaction, f)
                IN  /\ o.kind \in {answer, "panic"}
                    /\ o.kind = "panic" => answer = "Ok"
                    /\ answer # "Ok" => o.account = a
          /\ \E f \in find_transaction(dir, NextTransaction.tx) :
                /\ last'.kind \in {DisputeAnswer(AccountBefore, NextTransaction, f), "panic"}
                /\ DisputeAnswer(AccountBefore, NextTransaction, f) # "Ok"
                      => accounts'[NextTransaction.client] = AccountBefore]_vars

C32_Witness ==
    /\ FirstHandled("Dispute")
    /\ last = [level |-> "tx_error", kind |-> "DisputeClientMismatch"]
    /\ accounts[chunk[1].client].available = 0
    /\ \E f \in find_transaction(dir, chunk[1].tx) :
          /\ f.ok
          /\ Unwrap(f.txn).client # chunk[1].client
          /\ Unwrap(f.txn).amount > accounts[chunk[1].client].available

\* The step is a Chargeback of client c that the processor answers with Ok.
ChargebackSucceeds(c) ==
    /\ Processing
    /\ NextTransaction.kind = "Chargeback"
    /\ NextTransaction.client = c
    /\ last'.level = "ok"

\* C33: an account starts unlocked, a successful Chargeback on it sets
\* locked, no other step changes the flag and no step clears it: locked is
\* true exactly when a Chargeback has succeeded on the account earlier in
\* the stream.
C33_LockedIffChargedBack ==
    [][/\ \A c \in Clients : ~empty(c).locked
       /\ \A c \in DOMAIN accounts' :
             /\ ChargebackSucceeds(c) => accounts'[c].locked
             /\ ~ChargebackSucceeds(c)
                   => accounts'[c].locked = EntryOrInsert(accounts, c).locked
             /\ EntryOrInsert(accounts, c).locked => accounts'[c].locked]_vars

C33_Witness ==
    /\ FirstHandled("Chargeback")
    /\ uniqueIds
    /\ accounts[chunk[1].client].locked
    /\ accounts[chunk[1].client].total = 0
    /\ ledger[chunk[1].client] = 0
    /\ last = [level |-> "ok", kind |-> "Ok"]

RECURSIVE SumAmounts(_)
\* Sum of the amounts of a set of deposits.
SumAmounts(deposits) ==
    IF deposits = {} THEN 0
    ELSE LET d == CHOOSE x \in deposits : TRUE
         IN  d.amount + SumAmounts(deposits \ {d})

\* The deposits read so far whose tx is in the disputed_txs of client c.
DisputedDeposits(c) ==
    {d \in persisted \cup {chunk[i] : i \in {j \in 1..Len(chunk) : IsDeposit(chunk[j])}} :
        d.tx \in accounts[c].disputed_txs}

\* C34: in every reachable state every account's held is the sum of the
\* amounts of the deposits whose tx is in its disputed_txs, and 0 when
\* disputed_txs is empty (stated as claimed; the code violates it).
C34_HeldIsDisputedSum ==
    \A c \in DOMAIN accounts :
       /\ accounts[c].held = SumAmounts(DisputedDeposits(c))
       /\ accounts[c].disputed_txs = {} => accounts[c].held = 0

\* C35: a tx is in an account's disputed_txs only if the processor applied
\* a deposit of that tx to that account; a deposit it rejected is never
\* disputed with success, although persist_block stored it (stated as
\* claimed; the code violates it).
C35_DisputedWasApplied ==
    \A c \in DOMAIN accounts :
       \A t \in accounts[c].disputed_txs : <<c, t>> \in applied

\* C36: no Account::try_new guarded by expect fails and no unreachable! is
\* reached: the processor never panics, whatever the input stream (stated
\* as claimed; the code violates it).
C36_NeverPanics ==
    /\ pc # "panicked"
    /\ last.level # "panic"
    /\ result # "panic"

\* Every row of every file of the directory is a deposit of a chunk whose
\* persist_block call has returned.
OnlyPersistedVisible ==
    \A n \in DOMAIN dir :
       \A i \in 1..Len(dir[n]) :
          \E d \in persisted : dir[n][i] = SerializeRow(TxRecordFrom(d))

C38_NoOutputOnFatal ==
    /\ pc = "failed" => (result \in FatalKinds /\ out = <<>>)
    /\ last.level = "fatal" => (pc = "failed" /\ result = last.kind)
    /\ pc = "panicked" => out = <<>>
    /\ out # <<>>
       => /\ pc \in {"emit", "done"}
          /\ eof
          /\ chunk = <<>>
          /\ LastHanded = pos
          /\ nPersisted = nChunks
          /\ last.level \in {"ok", "tx_error"}
          /\ result \in {"running", "Ok"}

C38_Witness ==
    /\ pc = "failed"
    /\ result \in {"BlockFileCreate", "BlockTxWrite", "BlockFileFlush", "BlockFileRename"}
    /\ nChunks = 2
    /\ \E c \in DOMAIN accounts : accounts[c].total > 0
    /\ out = <<>>

\* C39: while the tx ids of the stream are unique, the processor returns
\* neither ResolveClientMismatch nor ChargebackClientMismatch, every account
\* is filed under its own client and is the one its client's transactions
\* are applied to, and every tx in its disputed_txs is the tx of a persisted
\* deposit of that client.
C39_NoMismatchOnUniqueIds ==
    uniqueIds
    => /\ last.kind \notin {"ResolveClientMismatch", "ChargebackClientMismatch"}
       /\ Processing => AccountBefore.client = NextTransaction.client
       /\ \A c \in DOMAIN accounts :
             /\ accounts[c].client = c
             /\ \A t \in accounts[c].disputed_txs :
                   \E d \in persisted : d.tx = t /\ d.client = c

C39_Witness ==
    /\ uniqueIds
    /\ pc = "emit"
    /\ DOMAIN accounts = {1, 2}
    /\ accounts[1].locked
    /\ accounts[2].total = 1
    /\ last = [level |-> "ok", kind |-> "Ok"]
    /\ lastIdx[1] = 4

\* What find_transaction may answer the transaction at hand, over all the
\* orders in which the directory can be enumerated.
PossibleFindings ==
    IF ConsultsStore(AccountBefore, NextTransaction)
    THEN find_transaction(dir, NextTransaction.tx)
    ELSE {NotConsulted}

\* C40: while the tx ids of the stream are unique, a step of the fold has
\* the same result for every order in which find_transaction can enumerate
\* the directory: the answer of the search is unique, and the account and
\* the answer of the processor are those of every possible finding; hence
\* the final accounts depend on the input stream only.
C40_OrderIndependent ==
    [][(uniqueIds /\ Processing)
       => /\ Cardinality(PossibleFindings) = 1
          /\ \A f \in PossibleFindings :
                LET o == TxProcess(AccountBefore, NextTransaction, f)
                IN  /\ accounts' = [c \in DOMAIN accounts \cup {NextTransaction.client} |->
                                      IF c = NextTransaction.client
                                      THEN o.account ELSE accounts[c]]
                    /\ last' = [level |-> o.level, kind |-> o.kind]]_vars

C40_Witness ==
    /\ uniqueIds
    /\ FirstHandled("Dispute")
    /\ last = [level |-> "ok", kind |-> "Ok"]
    /\ Cardinality({n \in DOMAIN dir : InRange(n, chunk[1].tx)}) = 2
    /\ \A n \in DOMAIN dir : dir[n] # <<>>
    /\ accounts[chunk[1].client].held > 0

=============================================================================
